---- MODULE Spec2Model ----
(***************************************************************************)
(* Model of md2pdf-mermaid: the diagram extraction and splicing pipeline   *)
(* (MermaidProcessor), the single-document converter (Converter.convert),  *)
(* the batch orchestrator (Converter.batchConvert), the watch mode         *)
(* (Converter.watch) and the configuration functions mergeConfig and       *)
(* validateConfig.                                                         *)
(*                                                                         *)
(* Text is a sequence of one-character strings.  The literal word          *)
(* "mermaid" of the delimiter patterns is written as the single character  *)
(* "M"; "~" is a backtick, "n" a newline, "s" any other white space.       *)
(***************************************************************************)
EXTENDS Integers, Sequences, FiniteSets, TLC

(***************************************************************************)
(* Bounds                                                                  *)
(***************************************************************************)
MaxPieces == 5        \* a document is a concatenation of at most MaxPieces pieces
MaxPatterns == 2      \* largest number of input patterns of a batch
MaxConcurrency == 2   \* largest value of options.concurrency
MaxDiagrams == 1      \* largest number of diagram blocks of a converted document
MaxTime == 3          \* watch mode: last instant of the clock
MaxDebounce == 2      \* watch mode: largest value of options.debounce
MaxEvents == 2        \* watch mode: number of add/change events delivered
MaxRounds == 2        \* rounds followed of a loop of chunkArray that never ends

None == "none"         \* a result that is still pending
NoDir == 0             \* null where a directory path is expected
NoTimer == [file |-> "", at |-> -1, id |-> 0]   \* no entry in the timers map
NoResult == [total |-> -1, successful |-> 0, failed |-> 0, results |-> <<>>]

(***************************************************************************)
(* Strings                                                                 *)
(***************************************************************************)
RECURSIVE Flatten(_)
Flatten(ss) == IF ss = <<>> THEN <<>> ELSE Head(ss) \o Flatten(Tail(ss))

Min(a, b) == IF a < b THEN a ELSE b
Max(a, b) == IF a > b THEN a ELSE b

\* String.prototype.substring(start, end): both indices are clamped to
\* [0, length] and swapped when start > end.
substring(s, start, end) ==
  LET a == Max(0, Min(start, Len(s)))
      b == Max(0, Min(end, Len(s)))
  IN  SubSeq(s, Min(a, b) + 1, Max(a, b))

\* String.prototype.substring(start)
substringFrom(s, start) == substring(s, start, Len(s))

IsWhiteSpace(c) == c \in {"s", "n"}

\* String.prototype.trim()
RECURSIVE trim(_)
trim(s) ==
  IF s = <<>> THEN s
  ELSE IF IsWhiteSpace(Head(s)) THEN trim(Tail(s))
  ELSE IF IsWhiteSpace(s[Len(s)]) THEN trim(SubSeq(s, 1, Len(s) - 1))
  ELSE s

\* Decimal digits of a natural number, as a template literal prints it.
Digits == <<"0", "1", "2", "3", "4", "5", "6", "7", "8", "9">>
RECURSIVE Dec(_)
Dec(k) == IF k < 10 THEN <<Digits[k + 1]>> ELSE Dec(k \div 10) \o <<Digits[(k % 10) + 1]>>

(***************************************************************************)
(* MERMAID_PATTERNS.  codeFence is: three backticks, the word mermaid,    *)
(* greedy white space, a newline, a lazy body (any characters, captured),  *)
(* three backticks.  tripleColon is the same with colons.  A pattern is    *)
(* named by its delimiter character d.  Positions are 1-based here; the    *)
(* indices stored in a match are 0-based as in the code.                   *)
(***************************************************************************)
MERMAID_PATTERNS == <<"~", ":">>

IsDelimAt(text, p, d) ==
  /\ p >= 1
  /\ p + 2 <= Len(text)
  /\ text[p] = d /\ text[p + 1] = d /\ text[p + 2] = d

\* Mutant of HeaderEnd: the opening marker alone is the header.
HeaderEndAnyFence(text, p, d) == IF IsDelimAt(text, p, d) THEN p + 2 ELSE 0

\* Position of the newline consumed by "\n" after the greedy "\s*" of a
\* header starting at p, or 0 when the header does not match at p.
HeaderEnd(text, p, d) ==
  IF ~(IsDelimAt(text, p, d) /\ p + 3 <= Len(text) /\ text[p + 3] = "M") THEN 0
  ELSE LET run == {k \in (p + 4)..Len(text) :
                     \A j \in (p + 4)..k : IsWhiteSpace(text[j])}
           nls == {k \in run : text[k] = "n"}
       IN  IF nls = {} THEN 0 ELSE CHOOSE k \in nls : \A j \in nls : j <= k

\* Mutant of FirstCloser: the body is greedy and runs to the last closing
\* delimiter.
LastCloser(text, from, d) ==
  LET qs == {q \in from..Len(text) : IsDelimAt(text, q, d)}
  IN  IF qs = {} THEN 0 ELSE CHOOSE q \in qs : \A r \in qs : q >= r

\* Position of the first closing delimiter at or after from, or 0.
FirstCloser(text, from, d) ==
  LET qs == {q \in from..Len(text) : IsDelimAt(text, q, d)}
  IN  IF qs = {} THEN 0 ELSE CHOOSE q \in qs : \A r \in qs : q <= r

\* Position of the last character of the match starting at p, or 0.
MatchEnd(text, p, d) ==
  LET h == HeaderEnd(text, p, d)
  IN  IF h = 0 THEN 0
      ELSE LET q == FirstCloser(text, h + 1, d)
           IN  IF q = 0 THEN 0 ELSE q + 2

\* regex.exec(content) with regex.lastIndex = lastIndex: the first position
\* at or after lastIndex where the pattern matches, or 0 (null).
RegexExec(text, lastIndex, d) ==
  LET ps == {p \in (lastIndex + 1)..Len(text) : MatchEnd(text, p, d) # 0}
  IN  IF ps = {} THEN 0 ELSE CHOOSE p \in ps : \A r \in ps : p <= r

\* Mutant of ScanPattern: the search resumes one character after the start
\* of the last match instead of at its end.
RECURSIVE ScanPatternFromStart(_, _, _)
ScanPatternFromStart(text, lastIndex, d) ==
  LET p == RegexExec(text, lastIndex, d)
  IN  IF p = 0 THEN <<>>
      ELSE LET e == MatchEnd(text, p, d)
               h == HeaderEnd(text, p, d)
               fullMatch == SubSeq(text, p, e)
           IN  <<[fullMatch  |-> fullMatch,
                  code       |-> trim(SubSeq(text, h + 1, e - 3)),
                  startIndex |-> p - 1,
                  endIndex   |-> (p - 1) + Len(fullMatch)]>>
               \o ScanPatternFromStart(text, p, d)

\* The while loop of extractDiagrams for one pattern.
RECURSIVE ScanPattern(_, _, _)
ScanPattern(text, lastIndex, d) ==
  LET p == RegexExec(text, lastIndex, d)
  IN  IF p = 0 THEN <<>>
      ELSE LET e == MatchEnd(text, p, d)
               h == HeaderEnd(text, p, d)
               fullMatch == SubSeq(text, p, e)
           IN  <<[fullMatch  |-> fullMatch,
                  code       |-> trim(SubSeq(text, h + 1, e - 3)),
                  startIndex |-> p - 1,
                  endIndex   |-> (p - 1) + Len(fullMatch)]>>
               \o ScanPattern(text, e, d)

\* Array.prototype.sort((a, b) => a.startIndex - b.startIndex): stable.
RECURSIVE InsertByStart(_, _)
InsertByStart(sorted, m) ==
  IF sorted = <<>> THEN <<m>>
  ELSE IF sorted[Len(sorted)].startIndex <= m.startIndex THEN Append(sorted, m)
  ELSE Append(InsertByStart(SubSeq(sorted, 1, Len(sorted) - 1), m), sorted[Len(sorted)])

\* Mutant of SortByStart: the array is left as pushed.
SortByStartSkipped(ms) == ms

RECURSIVE SortByStart(_)
SortByStart(ms) ==
  IF ms = <<>> THEN <<>>
  ELSE InsertByStart(SortByStart(SubSeq(ms, 1, Len(ms) - 1)), ms[Len(ms)])

extractDiagrams(text) ==
  SortByStart(ScanPattern(text, 0, MERMAID_PATTERNS[1])
              \o ScanPattern(text, 0, MERMAID_PATTERNS[2]))

(***************************************************************************)
(* State                                                                   *)
(***************************************************************************)
VARIABLES
  \* MermaidProcessor.processMarkdown, one call
  content,           \* parameter content
  baseFileName,      \* parameter baseFileName
  outputFormat,      \* this.options.outputFormat
  diagrams,          \* const diagrams
  processedContent,  \* let processedContent
  offset,            \* let offset
  errors,            \* const errors
  i,                 \* loop variable i
  pmPc,              \* position in processMarkdown: "start", "loop", "done"
  renderResults,     \* history: result.success of every renderDiagram call so far
  renderCalls,       \* history: what every renderDiagram call was given and returned
  \* Converter and its MermaidProcessor, the file system
  keepIntermediate,  \* this.options.keepIntermediate
  tempDir,           \* this.mermaidProcessor.tempDir: a directory or NoDir (null)
  dirs,              \* the temporary directories that exist
  tasks,             \* the convert calls made so far, in order of their start
  \* Converter.batchConvert, one call
  patterns,          \* const patterns
  files,             \* const files: the concatenated glob matches
  concurrency,       \* options.concurrency ?? 3
  continueOnError,   \* options.continueOnError
  outputDir,         \* options.outputDir, "" when it is not given
  uniqueFiles,       \* const uniqueFiles
  chunks,            \* const chunks
  chunkIndex,        \* the chunk the for loop is at (1-based)
  results,           \* const results
  successful,        \* let successful
  failed,            \* let failed
  batchPc,           \* position in batchConvert
  batchResult,       \* the value batchConvert returned, or NoResult
  \* Converter.watch, one session
  now,               \* the clock
  debounce,          \* options.debounce ?? 500
  timers,            \* const timers: file -> timer, NoTimer where the map has no entry
  scheduled,         \* the timers of the runtime that are set and not yet fired or cleared
  watchPc,           \* "open", "closing" (inside close()), "closed"
  lastEvent,         \* history: per file, the time of its last add/change event
  bursts,            \* history: per file, the number of bursts of events so far
  eventCount,        \* history: the number of events delivered so far
  \* mergeConfig, one call
  fileConfig,        \* parameter fileConfig
  cliOptions,        \* parameter cliOptions
  merged,            \* the value mergeConfig returned
  mergePc,           \* "start" before the call, "done" after it
  \* validateConfig, one call
  config,            \* parameter config
  validation,        \* the value validateConfig returned
  validatePc         \* "start" before the call, "done" after it

spliceVars == <<content, baseFileName, outputFormat, diagrams, processedContent,
                offset, errors, i, pmPc, renderResults, renderCalls>>
converterVars == <<keepIntermediate, tempDir, dirs, tasks>>
batchVars == <<patterns, files, concurrency, continueOnError, outputDir, uniqueFiles, chunks, chunkIndex,
               results, successful, failed, batchPc, batchResult>>
watchVars == <<now, debounce, timers, scheduled, watchPc, lastEvent, bursts, eventCount>>

configVars == <<fileConfig, cliOptions, merged, mergePc, config, validation, validatePc>>

vars == <<spliceVars, converterVars, batchVars, watchVars, configVars>>

(***************************************************************************)
(* Inputs of processMarkdown                                               *)
(***************************************************************************)
Pieces ==
  { <<"~", "~", "~", "M", "n">>,     \* opening code fence
    <<"~", "~", "~">>,               \* closing code fence
    <<":", ":", ":", "M", "n">>,     \* opening triple colon
    <<":", ":", ":">>,               \* closing triple colon
    <<"x", "y", "z">>,               \* plain text
    <<"s", "n">> }                   \* white space

RECURSIVE PieceSeqs(_)
PieceSeqs(k) ==
  IF k = 0 THEN {<<>>}
  ELSE LET shorter == PieceSeqs(k - 1)
       IN  shorter \cup {Append(ps, pc) : ps \in {q \in shorter : Len(q) = k - 1}, pc \in Pieces}

Documents == {Flatten(ps) : ps \in PieceSeqs(MaxPieces)}

BaseFileNames == {<<"a">>, <<"a", "b", "c">>}
OutputFormats == {"png", "svg"}
(***************************************************************************)
(* MermaidProcessor.renderDiagram as processMarkdown sees it: one call,    *)
(* from its try to its return.  What the call meets outside the program:   *)
(*   tmpDir  tmp.dir() resolves (asked only while this.tempDir is null)    *)
(*   write   fs.writeFile and the two fs.writeJson calls resolve           *)
(*   exec    how npx mmdc ended: "exit0", "nonZero", or "timeout" when it  *)
(*           was killed after 60000 ms                                     *)
(*   output  fs.pathExists(outputPath); a file of an earlier run may be    *)
(*           there when mmdc fails                                         *)
(***************************************************************************)
RenderEnvs ==
  { [tmpDir |-> TRUE,  write |-> TRUE,  exec |-> "exit0",   output |-> TRUE],
    [tmpDir |-> FALSE, write |-> TRUE,  exec |-> "exit0",   output |-> FALSE],
    [tmpDir |-> TRUE,  write |-> FALSE, exec |-> "exit0",   output |-> FALSE],
    [tmpDir |-> TRUE,  write |-> TRUE,  exec |-> "timeout", output |-> FALSE],
    [tmpDir |-> TRUE,  write |-> TRUE,  exec |-> "nonZero", output |-> TRUE],
    [tmpDir |-> TRUE,  write |-> TRUE,  exec |-> "exit0",   output |-> FALSE] }

\* The try block: a value returned, or an Error thrown with its message.
renderDiagramTry(env, dir) ==
  IF dir = NoDir /\ ~env.tmpDir THEN [kind |-> "throw", success |-> FALSE, error |-> "EACCES"]
  ELSE IF ~env.write THEN [kind |-> "throw", success |-> FALSE, error |-> "ENOSPC"]
  ELSE IF env.exec # "exit0"
  THEN [kind |-> "throw", success |-> FALSE, error |-> "Command failed"]
  ELSE IF env.output THEN [kind |-> "return", success |-> TRUE, error |-> ""]
  ELSE [kind |-> "return", success |-> FALSE, error |-> "Output file was not created"]

\* Mutant of renderDiagramCatch: the error is thrown again.
renderDiagramCatchRethrows(thrown) == thrown

\* catch (error) { return { success: false, error: errorMessage } }
renderDiagramCatch(thrown) ==
  [kind |-> "return", success |-> FALSE, error |-> thrown.error]

renderDiagram(env, dir) ==
  LET outcome == renderDiagramTry(env, dir)
  IN  IF outcome.kind = "throw" THEN renderDiagramCatch(outcome) ELSE outcome

\* this.tempDir after the call: set once tmp.dir() resolved.
TempDirAfter(env, dir) == IF dir = NoDir /\ env.tmpDir THEN 1 ELSE dir

\* The base names and formats of the calls followed: a short name with png,
\* a long one with svg.
NamedOutputs == {<<<<"a">>, "png">>, <<<<"a", "b", "c">>, "svg">>}

RenderErrors ==
  {renderDiagram(env, NoDir).error : env \in {e \in RenderEnvs : ~renderDiagram(e, NoDir).success}}

(***************************************************************************)
(* MermaidProcessor.processMarkdown                                        *)
(***************************************************************************)
\* Mutant of ImageName: the number is left out.
ImageNameUnnumbered(base, k, format) == base \o <<"-diagram-">> \o <<".", format>>

ImageName(base, k, format) == base \o <<"-diagram-">> \o Dec(k) \o <<".", format>>

ImageMarkdown(base, k, format) ==
  <<"![Diagram ">> \o Dec(k) \o <<"](./">> \o ImageName(base, k, format) \o <<")">>

\* Mutant of ErrorEntry: the label carries i instead of i + 1.
ErrorEntryOffByOne(k, error) == <<"Diagram ">> \o Dec(k - 1) \o <<": ", error>>

ErrorEntry(k, error) == <<"Diagram ">> \o Dec(k) \o <<": ", error>>

\* Mutant of NextOffset: the offset is never updated.
NextOffsetNotUpdated(off, imageMarkdown, diagram) == off

\* offset += imageMarkdown.length - diagram.fullMatch.length
NextOffset(off, imageMarkdown, diagram) ==
  off + Len(imageMarkdown) - Len(diagram.fullMatch)

\* processedContent.substring(0, adjustedStart) + imageMarkdown +
\* processedContent.substring(adjustedEnd)
Splice(text, off, imageMarkdown, diagram) ==
  LET adjustedStart == diagram.startIndex + off
      adjustedEnd   == diagram.endIndex + off
  IN  substring(text, 0, adjustedStart) \o imageMarkdown \o substringFrom(text, adjustedEnd)

\* The record of one renderDiagram(diagram.code, imagePath) call.
RenderCall(env, dir, imageName, diagram, off) ==
  [env |-> env, hadDir |-> dir # NoDir, imageName |-> imageName, code |-> diagram.code,
   startIndex |-> diagram.startIndex,   \* history: the block the call renders
   offsetAtCall |-> off,                \* history: offset when the call is made
   result |-> renderDiagram(env, dir)]

\* Mutant of NextDiagram: the list is walked from its end.
NextDiagramReversed(ds, j) == ds[Len(ds) - j]

\* const diagram = diagrams[i]
NextDiagram(ds, j) == ds[j + 1]

\* The environments a call can meet: tmp.dir() is asked only without a
\* workspace.
EnvsFor(dir) == {env \in RenderEnvs : dir # NoDir => env.tmpDir}

processMarkdownBegin ==
  /\ pmPc = "start"
  /\ diagrams' = extractDiagrams(content)
  /\ errors' = <<>>
  /\ processedContent' = content
  /\ offset' = 0
  /\ i' = 0
  /\ pmPc' = "loop"
  /\ UNCHANGED <<content, baseFileName, outputFormat, renderResults, renderCalls>>
  /\ UNCHANGED <<converterVars, batchVars, watchVars, configVars>>

\* One iteration whose renderDiagram call returned {success: true}.
processMarkdownRendered ==
  /\ pmPc = "loop"
  /\ i < Len(diagrams)
  /\ LET diagram == NextDiagram(diagrams, i)
         imageName == ImageName(baseFileName, i + 1, outputFormat)
         imageMarkdown == ImageMarkdown(baseFileName, i + 1, outputFormat)
     IN  /\ \E env \in EnvsFor(tempDir) :
               /\ renderDiagram(env, tempDir).kind = "return"
               /\ renderDiagram(env, tempDir).success
               /\ renderCalls' = Append(renderCalls,
                                        RenderCall(env, tempDir, imageName, diagram, offset))
               /\ tempDir' = TempDirAfter(env, tempDir)
               /\ dirs' = dirs \cup {TempDirAfter(env, tempDir)}
         /\ processedContent' = Splice(processedContent, offset, imageMarkdown, diagram)
         /\ offset' = NextOffset(offset, imageMarkdown, diagram)
  /\ renderResults' = Append(renderResults, TRUE)
  /\ i' = i + 1
  /\ UNCHANGED <<content, baseFileName, outputFormat, diagrams, errors, pmPc>>
  /\ UNCHANGED <<keepIntermediate, tasks>>
  /\ UNCHANGED <<batchVars, watchVars, configVars>>

\* One iteration whose renderDiagram call did not return {success: true}:
\* it returned {success: false, error}, or it threw and processMarkdown
\* rejects.
processMarkdownRenderFailed ==
  /\ pmPc = "loop"
  /\ i < Len(diagrams)
  /\ LET diagram == NextDiagram(diagrams, i)
         imageName == ImageName(baseFileName, i + 1, outputFormat)
     IN  \E env \in EnvsFor(tempDir) :
           LET result == renderDiagram(env, tempDir)
           IN  /\ ~(result.kind = "return" /\ result.success)
               /\ renderCalls' = Append(renderCalls,
                                        RenderCall(env, tempDir, imageName, diagram, offset))
               /\ tempDir' = TempDirAfter(env, tempDir)
               /\ dirs' = IF TempDirAfter(env, tempDir) = NoDir THEN dirs
                          ELSE dirs \cup {TempDirAfter(env, tempDir)}
               /\ IF result.kind = "throw"
                  THEN /\ pmPc' = "rejected"
                       /\ UNCHANGED errors
                  ELSE /\ errors' = Append(errors, ErrorEntry(i + 1, result.error))
                       /\ UNCHANGED pmPc
  /\ renderResults' = Append(renderResults, FALSE)
  /\ i' = i + 1
  /\ UNCHANGED <<content, baseFileName, outputFormat, diagrams, processedContent, offset>>
  /\ UNCHANGED <<keepIntermediate, tasks>>
  /\ UNCHANGED <<batchVars, watchVars, configVars>>

processMarkdownReturn ==
  /\ pmPc = "loop"
  /\ i = Len(diagrams)
  /\ pmPc' = "done"
  /\ UNCHANGED <<content, baseFileName, outputFormat, diagrams, processedContent,
                 offset, errors, i, renderResults, renderCalls>>
  /\ UNCHANGED <<converterVars, batchVars, watchVars, configVars>>

(***************************************************************************)
(* Converter.convert.  A convert call is a task: it runs from one await to *)
(* the next in one step, and the steps of different calls interleave.      *)
(*   pc: "start"          awaiting fs.pathExists(resolvedInput)            *)
(*       "loop"           in processMarkdown, before diagram k + 1         *)
(*       "tmpDir"         in renderDiagram, awaiting tmp.dir()             *)
(*       "render"         in renderDiagram, awaiting the writes and mmdc   *)
(*       "cleanup"        entering the finally block                       *)
(*       "cleanupExists"  in cleanup, awaiting fs.pathExists(this.tempDir) *)
(*       "cleanupRemove"  in cleanup, awaiting fs.remove(this.tempDir)     *)
(*       "done"           settled                                          *)
(*   result: None while pending, "success" / "failure" for the resolved    *)
(*       ConversionResult, "rejected" when the promise rejected.           *)
(***************************************************************************)
\* path.basename(file) and file.replace(/\.md$/i, '.pdf') on the paths of the
\* batch directory.
basename(file) ==
  CASE file = "a.md"     -> "a.md"
    [] file = "b.md"     -> "b.md"
    [] file = "sub/a.md" -> "a.md"

replaceMd(file) ==
  CASE file = "a.md"     -> "a.pdf"
    [] file = "b.md"     -> "b.pdf"
    [] file = "sub/a.md" -> "sub/a.pdf"

\* path.join(dir, name)
pathJoin(dir, name) == dir \o "/" \o name

\* resolvedOutput of convert; outputPath is "undefined" when it is not given.
resolvedOutput(inputPath, outputPath) ==
  IF outputPath # "undefined" THEN outputPath ELSE replaceMd(inputPath)

\* options.outputDir, and the outputPath batchConvert and the watch callback
\* pass to convert: under outputDir when it is given.
OutputDirs == {"", "out"}

outputPathFor(file) ==
  IF outputDir # "" THEN pathJoin(outputDir, replaceMd(basename(file))) ELSE "undefined"

NewTask(file, group, outputPath) ==
  [file      |-> file,
   group     |-> group,      \* history: the chunk that started it (0 in watch mode)
   output    |-> resolvedOutput(file, outputPath),
   pc        |-> "start",
   result    |-> None,
   workDir   |-> NoDir,       \* tmpDir.path
   nDiag     |-> 0,          \* diagrams.length
   nErrors   |-> 0,          \* errors.length
   k         |-> 0,          \* loop variable i of processMarkdown
   newDir    |-> NoDir,       \* tmpResult.path while tmp.dir() is awaited
   workspace |-> NoDir,       \* the directory of inputPath in the current render
   stamp     |-> -1,         \* Date.now() in inputPath of the current render
   pdf       |-> "none",     \* history: what pdfGenerator.generate reported
   found     |-> 0,          \* history: the diagrams extractDiagrams found
   created   |-> {},         \* history: rendering workspaces this call created
   probed    |-> NoDir,       \* argument of the pending fs.pathExists
   existed   |-> FALSE,      \* whether that directory existed when probed
   removing  |-> NoDir,       \* argument of the pending fs.remove
   watchState |-> watchPc,   \* history: state of the watch handle at the call
   startedAt |-> now,        \* history: time of the call
   lastEv    |-> IF file \in DOMAIN lastEvent THEN lastEvent[file] ELSE -1]
                             \* history: last event of the file before the call

TaskIds == 1..Len(tasks)

\* tmp.dir() hands out a name nobody else has: the work directory of call t,
\* and the workspace call t asks for when it renders its diagram k + 1.
WorkDirName(t) == 100 * t
WorkspaceName(t, k) == 100 * t + k + 1

\* fs.pathExists(resolvedInput) is false: throw, catch, enter finally.
convertMissingInput(t) ==
  /\ tasks[t].pc = "start"
  /\ tasks' = [tasks EXCEPT ![t] = [@ EXCEPT !.pc = "cleanup", !.result = "failure"]]
  /\ UNCHANGED <<keepIntermediate, tempDir, dirs>>

\* The input exists: read it, create the work directory, and enter
\* processMarkdown with the diagrams extractDiagrams found.
convertPrepare(t) ==
  /\ tasks[t].pc = "start"
  /\ \E n \in 0..MaxDiagrams :
       tasks' = [tasks EXCEPT ![t] = [@ EXCEPT !.pc = "loop", !.workDir = WorkDirName(t),
                                                !.nDiag = n, !.found = n, !.k = 0]]
  /\ dirs' = dirs \cup {WorkDirName(t)}
  /\ UNCHANGED <<keepIntermediate, tempDir>>

\* renderDiagram up to its first await: with no workspace, tmp.dir() is
\* called; otherwise inputPath is built from this.tempDir and written.
renderDiagramBegin(t) ==
  /\ tasks[t].pc = "loop"
  /\ tasks[t].k < tasks[t].nDiag
  /\ IF tempDir = NoDir
     THEN /\ tasks' = [tasks EXCEPT ![t] =
                         [@ EXCEPT !.pc = "tmpDir", !.newDir = WorkspaceName(t, tasks[t].k)]]
          /\ dirs' = dirs \cup {WorkspaceName(t, tasks[t].k)}
     ELSE /\ tasks' = [tasks EXCEPT ![t] = [@ EXCEPT !.pc = "render", !.workspace = tempDir,
                                                     !.stamp = now]]
          /\ UNCHANGED dirs
  /\ UNCHANGED <<keepIntermediate, tempDir>>

\* tmp.dir() resolved: this.tempDir = tmpResult.path, then inputPath.
renderDiagramTempDir(t) ==
  /\ tasks[t].pc = "tmpDir"
  /\ tempDir' = tasks[t].newDir
  /\ tasks' = [tasks EXCEPT ![t] = [@ EXCEPT !.pc = "render",
                                           !.workspace = tasks[t].newDir,
                                           !.stamp = now,
                                           !.created = @ \cup {tasks[t].newDir},
                                           !.newDir = NoDir]]
  /\ UNCHANGED <<keepIntermediate, dirs>>

\* The writes into the workspace and the mmdc run finished; the render can
\* succeed only if the workspace still exists.  Back in processMarkdown.
renderDiagramEnd(t) ==
  /\ tasks[t].pc = "render"
  /\ \E success \in {s \in BOOLEAN : s => tasks[t].workspace \in dirs} :
       tasks' = [tasks EXCEPT ![t] = [@ EXCEPT !.pc = "loop", !.k = @ + 1,
                                                !.nErrors = IF success THEN @ ELSE @ + 1,
                                                !.workspace = NoDir, !.stamp = -1]]
  /\ UNCHANGED <<keepIntermediate, tempDir, dirs>>

\* processMarkdown returned and pdfGenerator.generate reported success:
\* tmpDir.cleanup() unless keepIntermediate, return the result (which carries
\* diagramCount; the loop variable and the error list are dead), enter finally.
convertGenerated(t) ==
  /\ tasks[t].pc = "loop"
  /\ tasks[t].k = tasks[t].nDiag
  /\ dirs' = IF keepIntermediate THEN dirs ELSE dirs \ {tasks[t].workDir}
  /\ tasks' = [tasks EXCEPT ![t] = [@ EXCEPT !.pc = "cleanup", !.result = "success",
                                           !.pdf = "ok", !.k = 0, !.nErrors = 0]]
  /\ UNCHANGED <<keepIntermediate, tempDir>>

\* pdfGenerator.generate reported {success: false}: throw, catch (the result
\* carries no diagramCount), finally.
convertGenerateFailed(t) ==
  /\ tasks[t].pc = "loop"
  /\ tasks[t].k = tasks[t].nDiag
  /\ tasks' = [tasks EXCEPT ![t] = [@ EXCEPT !.pc = "cleanup", !.result = "failure",
                                           !.pdf = "failed", !.k = 0, !.nDiag = 0,
                                           !.nErrors = 0]]
  /\ UNCHANGED <<keepIntermediate, tempDir, dirs>>

\* MermaidProcessor.cleanup up to its first await: nothing to do without a
\* workspace, otherwise fs.pathExists(this.tempDir).
cleanupBegin(t) ==
  /\ tasks[t].pc = "cleanup"
  /\ tasks' = [tasks EXCEPT ![t] =
       IF tempDir = NoDir THEN [@ EXCEPT !.pc = "done"]
       ELSE [@ EXCEPT !.pc = "cleanupExists", !.probed = tempDir,
                      !.existed = (tempDir \in dirs)]]
  /\ UNCHANGED <<keepIntermediate, tempDir, dirs>>

\* fs.pathExists resolved, with the state of the directory at some moment
\* between the call and now.  True: fs.remove(this.tempDir) with the current
\* value of this.tempDir, which rejects for null.  False: cleanup returns.
cleanupExists(t) ==
  /\ tasks[t].pc = "cleanupExists"
  /\ \E exists \in {e \in BOOLEAN : IF e THEN tasks[t].existed
                                         ELSE tasks[t].probed \notin dirs} :
       tasks' = [tasks EXCEPT ![t] =
         IF ~exists THEN [@ EXCEPT !.pc = "done", !.probed = NoDir, !.existed = FALSE]
         ELSE IF tempDir = NoDir THEN [@ EXCEPT !.pc = "done", !.probed = NoDir,
                                               !.existed = FALSE, !.result = "rejected"]
         ELSE [@ EXCEPT !.pc = "cleanupRemove", !.probed = NoDir, !.existed = FALSE,
                        !.removing = tempDir]]
  /\ UNCHANGED <<keepIntermediate, tempDir, dirs>>

\* fs.remove resolved: this.tempDir = null, cleanup and convert return.
cleanupRemove(t) ==
  /\ tasks[t].pc = "cleanupRemove"
  /\ dirs' = dirs \ {tasks[t].removing}
  /\ tempDir' = NoDir
  /\ tasks' = [tasks EXCEPT ![t] = [@ EXCEPT !.pc = "done", !.removing = NoDir]]
  /\ UNCHANGED <<keepIntermediate>>

(***************************************************************************)
(* Converter.batchConvert                                                  *)
(***************************************************************************)
\* glob(pattern, {absolute: true}) in the directory of the batch, which
\* holds a.md, b.md and sub/a.md.
Patterns == {"a.md", "b.md", "[ab].md", "**/*.md"}

glob(pattern) ==
  CASE pattern = "a.md"    -> <<"a.md">>
    [] pattern = "b.md"    -> <<"b.md">>
    [] pattern = "[ab].md" -> <<"a.md", "b.md">>
    [] pattern = "**/*.md" -> <<"a.md", "b.md", "sub/a.md">>

\* for (const pattern of patterns) files.push(...matches)
GlobAll(ps) == Flatten([j \in 1..Len(ps) |-> glob(ps[j])])

\* Mutant of Dedup: duplicates are kept.
DedupKeepsAll(fs) == fs

\* [...new Set(files)]: the first occurrence of every path, in order.
RECURSIVE Dedup(_)
Dedup(fs) ==
  IF fs = <<>> THEN <<>>
  ELSE LET init == SubSeq(fs, 1, Len(fs) - 1)
           last == fs[Len(fs)]
       IN  IF \E j \in 1..Len(init) : init[j] = last THEN Dedup(init)
           ELSE Append(Dedup(init), last)

\* Array.prototype.slice(start, end): a negative index counts from the end,
\* and the slice is empty when end is not after start.
slice(array, start, end) ==
  LET relative(x) == IF x < 0 THEN (IF Len(array) + x < 0 THEN 0 ELSE Len(array) + x)
                     ELSE Min(x, Len(array))
  IN  SubSeq(array, relative(start) + 1, relative(end))

\* Converter.chunkArray: for (let i = 0; i < array.length; i += size).
RECURSIVE chunkLoop(_, _, _)
chunkLoop(array, size, j) ==
  IF j < Len(array)
  THEN <<slice(array, j, j + size)>> \o chunkLoop(array, size, j + size)
  ELSE <<>>

\* Mutant of chunkArray: every chunk takes one element too many.
chunkArrayTooLong(array, size) == chunkLoop(array, size + 1, 0)

chunkArray(array, size) == chunkLoop(array, size, 0)

\* Whether the loop of chunkArray ends: i is n * size after n rounds and
\* the loop is left when i < array.length fails.
chunkArrayReturns(array, size) == \E n \in 0..Len(array) : n * size >= Len(array)

\* The ConversionResult a settled convert call resolved to.
ConversionResult(task) == [success |-> task.result = "success", inputFile |-> task.file]

\* The tasks of chunk g, in the order of chunk.map.
ChunkTasks(g) == SelectSeq([t \in TaskIds |-> t], LAMBDA t : tasks[t].group = g)

\* for (const result of chunkResults) { ... }: push, count, and break at a
\* failure unless continueOnError.
RECURSIVE TallyLoop(_, _, _)
TallyLoop(tally, chunkResults, goOn) ==
  IF chunkResults = <<>> THEN tally
  ELSE LET result == Head(chunkResults)
           pushed == Append(tally.results, result)
       IN  IF result.success
           THEN TallyLoop([tally EXCEPT !.results = pushed, !.successful = @ + 1],
                          Tail(chunkResults), goOn)
           ELSE IF ~goOn
           THEN [tally EXCEPT !.results = pushed, !.failed = @ + 1]
           ELSE TallyLoop([tally EXCEPT !.results = pushed, !.failed = @ + 1],
                          Tail(chunkResults), goOn)

\* Mutant of StopsAfterChunk: the loop over the chunks is never left.
StopsAfterChunkNever(goOn, failedCount) == FALSE

\* if (!options.continueOnError && failed > 0) break;
StopsAfterChunk(goOn, failedCount) == ~goOn /\ failedCount > 0

\* The globs resolved: deduplicate, chunk, and reach the for loop.
batchConvertBegin ==
  /\ batchPc = "start"
  /\ chunkArrayReturns(Dedup(GlobAll(patterns)), concurrency)
  /\ files' = GlobAll(patterns)
  /\ uniqueFiles' = Dedup(GlobAll(patterns))
  /\ chunks' = chunkArray(Dedup(GlobAll(patterns)), concurrency)
  /\ results' = <<>>
  /\ successful' = 0
  /\ failed' = 0
  /\ chunkIndex' = 1
  /\ batchPc' = "launch"
  /\ UNCHANGED <<patterns, concurrency, continueOnError, outputDir, batchResult>>
  /\ UNCHANGED <<configVars, spliceVars, converterVars, watchVars>>

\* The globs resolved, and chunkArray is entered with a size its loop never
\* ends with: chunks is the local array of chunkArray from here on.
batchConvertSpins ==
  /\ batchPc = "start"
  /\ ~chunkArrayReturns(Dedup(GlobAll(patterns)), concurrency)
  /\ files' = GlobAll(patterns)
  /\ uniqueFiles' = Dedup(GlobAll(patterns))
  /\ chunks' = <<>>
  /\ batchPc' = "chunking"
  /\ UNCHANGED <<patterns, concurrency, continueOnError, outputDir, chunkIndex, results,
                 successful, failed, batchResult>>
  /\ UNCHANGED <<configVars, spliceVars, converterVars, watchVars>>

\* One more round of that loop: chunks.push(array.slice(i, i + size)).  The
\* first MaxRounds rounds are followed; the rounds after them differ only in
\* the length of chunks, and i < array.length holds in each of them, so the
\* loop is still running where the behaviours of the model end.
chunkArrayRound ==
  /\ batchPc = "chunking"
  /\ Len(chunks) < MaxRounds
  /\ LET j == Len(chunks) * concurrency
     IN  chunks' = Append(chunks, slice(uniqueFiles, j, j + concurrency))
  /\ UNCHANGED <<patterns, files, concurrency, continueOnError, outputDir, uniqueFiles,
                 chunkIndex, results, successful, failed, batchPc, batchResult>>
  /\ UNCHANGED <<configVars, spliceVars, converterVars, watchVars>>

\* chunk.map(async (file) => this.convert(file, outputPath)): every convert
\* call of the chunk runs up to its first await; Promise.all is awaited.
batchLaunchChunk ==
  /\ batchPc = "launch"
  /\ chunkIndex <= Len(chunks)
  /\ tasks' = tasks \o [j \in 1..Len(chunks[chunkIndex]) |->
                          NewTask(chunks[chunkIndex][j], chunkIndex,
                                  outputPathFor(chunks[chunkIndex][j]))]
  /\ batchPc' = "await"
  /\ UNCHANGED <<patterns, files, concurrency, continueOnError, outputDir, uniqueFiles, chunks, chunkIndex,
                 results, successful, failed, batchResult>>
  /\ UNCHANGED <<keepIntermediate, tempDir, dirs>>
  /\ UNCHANGED <<configVars, spliceVars, watchVars>>

\* Promise.all resolved: every convert call of the chunk resolved.
batchChunkSettled ==
  /\ batchPc = "await"
  /\ \A t \in TaskIds : tasks[t].group = chunkIndex =>
       tasks[t].pc = "done" /\ tasks[t].result # "rejected"
  /\ LET chunkResults == [j \in 1..Len(ChunkTasks(chunkIndex)) |->
                            ConversionResult(tasks[ChunkTasks(chunkIndex)[j]])]
         tally == TallyLoop([results |-> results, successful |-> successful,
                             failed |-> failed], chunkResults, continueOnError)
     IN  /\ results' = tally.results
         /\ successful' = tally.successful
         /\ failed' = tally.failed
         /\ batchPc' = IF StopsAfterChunk(continueOnError, tally.failed)
                       THEN "return" ELSE "launch"
  /\ chunkIndex' = chunkIndex + 1
  /\ UNCHANGED <<patterns, files, concurrency, continueOnError, outputDir, uniqueFiles, chunks, batchResult>>
  /\ UNCHANGED <<configVars, spliceVars, converterVars, watchVars>>

\* Promise.all rejected because a convert call of the chunk rejected:
\* batchConvert rejects; the other calls of the chunk keep running.
batchChunkRejected ==
  /\ batchPc = "await"
  /\ \E t \in TaskIds : tasks[t].group = chunkIndex /\ tasks[t].result = "rejected"
  /\ batchPc' = "rejected"
  /\ UNCHANGED <<patterns, files, concurrency, continueOnError, outputDir, uniqueFiles, chunks, chunkIndex,
                 results, successful, failed, batchResult>>
  /\ UNCHANGED <<configVars, spliceVars, converterVars, watchVars>>

\* The for loop ended or was left by break: return the BatchConversionResult.
batchReturn ==
  /\ \/ batchPc = "return"
     \/ batchPc = "launch" /\ chunkIndex > Len(chunks)
  /\ batchResult' = [total |-> Len(uniqueFiles), successful |-> successful,
                     failed |-> failed, results |-> results]
  /\ batchPc' = "done"
  /\ UNCHANGED <<patterns, files, concurrency, continueOnError, outputDir, uniqueFiles, chunks, chunkIndex,
                 results, successful, failed>>
  /\ UNCHANGED <<configVars, spliceVars, converterVars, watchVars>>

(***************************************************************************)
(* Converter.watch.  Timers fire on time: the clock does not pass the      *)
(* deadline of a timer that is set, and a due timer runs before an event   *)
(* of the same instant is delivered.  The watcher delivers no event once   *)
(* watcher.close() has been called.                                        *)
(***************************************************************************)
WatchFiles == {"a.md", "b.md"}

Due == {timer \in scheduled : timer.at <= now}

\* Mutant of clearTimeout: the timer stays set.
clearTimeoutIgnored(set, timer) == set

\* clearTimeout(timer)
clearTimeout(set, timer) == set \ {timer}

\* setTimeout(callback, debounce)
setTimeout(file, delay, id) == [file |-> file, at |-> now + delay, id |-> id]

\* Mutant of timersSet: the timer is stored under every file.
timersSetAll(map, file, timer) == [f \in DOMAIN map |-> timer]

\* timers.set(filePath, timer)
timersSet(map, file, timer) == [map EXCEPT ![file] = timer]

\* Mutant of timersDelete: the entry stays in the map.
timersDeleteSkipped(map, file) == map

\* timers.delete(filePath)
timersDelete(map, file) == [map EXCEPT ![file] = NoTimer]

\* handleChange(filePath) on an 'add' or 'change' event.
handleChange(filePath) ==
  /\ watchPc = "open"
  /\ eventCount < MaxEvents
  /\ Due = {}
  /\ LET existing == timers[filePath]
         timer == setTimeout(filePath, debounce, eventCount + 1)
     IN  /\ scheduled' = (IF existing # NoTimer THEN clearTimeout(scheduled, existing)
                          ELSE scheduled) \cup {timer}
         /\ timers' = timersSet(timers, filePath, timer)
  /\ bursts' = [bursts EXCEPT ![filePath] =
                  IF lastEvent[filePath] < 0 \/ now - lastEvent[filePath] >= debounce
                  THEN @ + 1 ELSE @]
  /\ lastEvent' = [lastEvent EXCEPT ![filePath] = now]
  /\ eventCount' = eventCount + 1
  /\ UNCHANGED <<now, debounce, watchPc>>
  /\ UNCHANGED <<configVars, spliceVars, converterVars, batchVars>>

\* The setTimeout callback: timers.delete(filePath), then this.convert up
\* to its first await (the session of the model has no outputDir).
timerFire(timer) ==
  /\ timer \in Due
  /\ scheduled' = scheduled \ {timer}
  /\ timers' = timersDelete(timers, timer.file)
  /\ tasks' = Append(tasks, NewTask(timer.file, 0, outputPathFor(timer.file)))
  /\ UNCHANGED <<now, debounce, watchPc, lastEvent, bursts, eventCount>>
  /\ UNCHANGED <<keepIntermediate, tempDir, dirs>>
  /\ UNCHANGED <<configVars, spliceVars, batchVars>>

\* Time passes.
tick ==
  /\ now < MaxTime
  /\ Due = {}
  /\ now' = now + 1
  /\ UNCHANGED <<debounce, timers, scheduled, watchPc, lastEvent, bursts, eventCount>>
  /\ UNCHANGED <<configVars, spliceVars, converterVars, batchVars>>

\* Mutant of timersClear: the map keeps its entries.
timersClearSkipped(map) == map

\* timers.clear()
timersClear(map) == [f \in DOMAIN map |-> NoTimer]

\* close() up to its await: watcher.close() is called.
closeBegin ==
  /\ watchPc = "open"
  /\ watchPc' = "closing"
  /\ UNCHANGED <<now, debounce, timers, scheduled, lastEvent, bursts, eventCount>>
  /\ UNCHANGED <<configVars, spliceVars, converterVars, batchVars>>

\* watcher.close() resolved: clearTimeout for every value of the map,
\* timers.clear(), close() returns.
closeEnd ==
  /\ watchPc = "closing"
  /\ scheduled' = scheduled \ {timers[f] : f \in WatchFiles}
  /\ timers' = timersClear(timers)
  /\ watchPc' = "closed"
  /\ UNCHANGED <<now, debounce, lastEvent, bursts, eventCount>>
  /\ UNCHANGED <<configVars, spliceVars, converterVars, batchVars>>

\* The steps of the convert calls in flight, in batch or watch mode.
OtherVars == <<configVars, spliceVars, batchVars, watchVars>>

ConvertMissingInput == \E t \in TaskIds : convertMissingInput(t) /\ UNCHANGED OtherVars
ConvertPrepare == \E t \in TaskIds : convertPrepare(t) /\ UNCHANGED OtherVars
RenderDiagramBegin == \E t \in TaskIds : renderDiagramBegin(t) /\ UNCHANGED OtherVars
RenderDiagramTempDir == \E t \in TaskIds : renderDiagramTempDir(t) /\ UNCHANGED OtherVars
RenderDiagramEnd == \E t \in TaskIds : renderDiagramEnd(t) /\ UNCHANGED OtherVars
ConvertGenerated == \E t \in TaskIds : convertGenerated(t) /\ UNCHANGED OtherVars
ConvertGenerateFailed == \E t \in TaskIds : convertGenerateFailed(t) /\ UNCHANGED OtherVars
CleanupBegin == \E t \in TaskIds : cleanupBegin(t) /\ UNCHANGED OtherVars
CleanupExists == \E t \in TaskIds : cleanupExists(t) /\ UNCHANGED OtherVars
CleanupRemove == \E t \in TaskIds : cleanupRemove(t) /\ UNCHANGED OtherVars

HandleChange == \E filePath \in WatchFiles : handleChange(filePath)
TimerFire == \E timer \in scheduled : timerFire(timer)

(***************************************************************************)
(* Configuration.  An object is a function from the names of its own       *)
(* properties to their values; "undefined" is the value undefined, which a *)
(* property that exists can hold; null stands for itself as NoConfig.      *)
(* Numbers of the scale are written in hundredths.                         *)
(***************************************************************************)
NoConfig == [null |-> TRUE]

EmptyObject == [k \in {} |-> "undefined"]

Get(object, k) == IF k \in DOMAIN object THEN object[k] ELSE "undefined"

\* Boolean(value) for the strings and objects of a configuration.
Truthy(value) == value \notin {"undefined", ""}

\* { ...a, ...b }: the own properties of a, then those of b over them.
Spread(a, b) == [k \in DOMAIN a \cup DOMAIN b |-> IF k \in DOMAIN b THEN b[k] ELSE a[k]]

Sections == {"pdf", "mermaid", "style"}

\* mergeConfig: merged.pdf, merged.mermaid or merged.style after line 464.
MergedSection(file, cli, s) ==
  LET inFile == file # NoConfig /\ s \in DOMAIN file
  IN  IF s \in DOMAIN cli
      THEN Spread(IF inFile THEN file[s] ELSE EmptyObject, cli[s])
      ELSE file[s]

\* The properties mergeConfig copies when they are truthy, and those it
\* copies when they are not undefined.
CopiedIfTruthy == {"input", "output", "workingDir"}
CopiedIfDefined == {"verbose", "keepIntermediate"}

mergeConfig(file, cli) ==
  LET sections == {s \in Sections :
                     (file # NoConfig /\ s \in DOMAIN file) \/ s \in DOMAIN cli}
      others == {k \in CopiedIfTruthy : Truthy(Get(cli, k))}
                  \cup {k \in CopiedIfDefined : Get(cli, k) # "undefined"}
  IN  [k \in sections \cup others |->
         IF k \in Sections THEN MergedSection(file, cli, k) ELSE cli[k]]

mergeConfigCall ==
  /\ mergePc = "start"
  /\ merged' = mergeConfig(fileConfig, cliOptions)
  /\ mergePc' = "done"
  /\ UNCHANGED <<fileConfig, cliOptions, config, validation, validatePc>>
  /\ UNCHANGED <<spliceVars, converterVars, batchVars, watchVars>>

validFormats ==
  <<"A0", "A1", "A2", "A3", "A4", "A5", "A6", "Letter", "Legal", "Tabloid", "Ledger">>

validThemes == <<"default", "forest", "dark", "neutral", "base">>

\* Array.prototype.includes
includes(array, value) == \E j \in 1..Len(array) : array[j] = value

\* config.pdf?.format and the like: undefined when the section is missing.
Optional(object, s, k) == IF s \in DOMAIN object THEN Get(object[s], k) ELSE "undefined"

validateConfig(c) ==
  LET format == Optional(c, "pdf", "format")
      theme == Optional(c, "mermaid", "theme")
      hasScale == "pdf" \in DOMAIN c /\ "scale" \in DOMAIN c["pdf"]
      formatErrors == IF Truthy(format) /\ ~includes(validFormats, format)
                      THEN <<<<"Invalid PDF format: ", format>>>> ELSE <<>>
      themeErrors == IF Truthy(theme) /\ ~includes(validThemes, theme)
                     THEN <<<<"Invalid Mermaid theme: ", theme>>>> ELSE <<>>
      scaleErrors == IF hasScale /\ (c["pdf"]["scale"] < 10 \/ c["pdf"]["scale"] > 200)
                     THEN <<<<"PDF scale must be between 0.1 and 2">>>> ELSE <<>>
      errs == formatErrors \o themeErrors \o scaleErrors
  IN  [valid |-> Len(errs) = 0, errors |-> errs]

validateConfigCall ==
  /\ validatePc = "start"
  /\ validation' = validateConfig(config)
  /\ validatePc' = "done"
  /\ UNCHANGED <<fileConfig, cliOptions, merged, mergePc, config>>
  /\ UNCHANGED <<spliceVars, converterVars, batchVars, watchVars>>

(***************************************************************************)
(* Initial states and specifications                                       *)
(***************************************************************************)
RECURSIVE SeqsUpTo(_, _)
SeqsUpTo(S, n) ==
  IF n = 0 THEN {<<>>}
  ELSE LET shorter == SeqsUpTo(S, n - 1)
       IN  shorter \cup {Append(q, x) : q \in {r \in shorter : Len(r) = n - 1}, x \in S}

SpliceIdle ==
  /\ content = <<>>
  /\ baseFileName = <<>>
  /\ outputFormat = "png"
  /\ diagrams = <<>>
  /\ processedContent = <<>>
  /\ offset = 0
  /\ errors = <<>>
  /\ i = 0
  /\ pmPc = "idle"
  /\ renderResults = <<>>
  /\ renderCalls = <<>>

ConverterInit ==
  /\ tempDir = NoDir
  /\ dirs = {}
  /\ tasks = <<>>

BatchIdle ==
  /\ patterns = <<>>
  /\ files = <<>>
  /\ concurrency = 1
  /\ continueOnError = FALSE
  /\ outputDir = ""
  /\ uniqueFiles = <<>>
  /\ chunks = <<>>
  /\ chunkIndex = 0
  /\ results = <<>>
  /\ successful = 0
  /\ failed = 0
  /\ batchPc = "idle"
  /\ batchResult = NoResult

WatchIdle ==
  /\ now = 0
  /\ debounce = 1
  /\ timers = [f \in WatchFiles |-> NoTimer]
  /\ scheduled = {}
  /\ watchPc = "idle"
  /\ lastEvent = [f \in WatchFiles |-> -1]
  /\ bursts = [f \in WatchFiles |-> 0]
  /\ eventCount = 0

ConfigIdle ==
  /\ fileConfig = NoConfig
  /\ cliOptions = EmptyObject
  /\ merged = EmptyObject
  /\ mergePc = "idle"
  /\ config = EmptyObject
  /\ validation = [valid |-> TRUE, errors |-> <<>>]
  /\ validatePc = "idle"

\* One processMarkdown call on a document.
InitSplice ==
  /\ content \in Documents
  /\ baseFileName \in BaseFileNames
  /\ outputFormat \in OutputFormats
  /\ <<baseFileName, outputFormat>> \in NamedOutputs
  /\ diagrams = <<>>
  /\ processedContent = <<>>
  /\ offset = 0
  /\ errors = <<>>
  /\ i = 0
  /\ pmPc = "start"
  /\ renderResults = <<>>
  /\ renderCalls = <<>>
  /\ keepIntermediate = FALSE
  /\ ConverterInit
  /\ BatchIdle
  /\ WatchIdle
  /\ ConfigIdle

NextSplice ==
  \/ processMarkdownBegin
  \/ processMarkdownRendered
  \/ processMarkdownRenderFailed
  \/ processMarkdownReturn

SpecSplice == InitSplice /\ [][NextSplice]_vars

\* One batchConvert call on a new Converter.
InitBatch ==
  /\ SpliceIdle
  /\ keepIntermediate \in BOOLEAN
  /\ ConverterInit
  /\ patterns \in SeqsUpTo(Patterns, MaxPatterns)
  /\ files = <<>>
  /\ concurrency \in 1..MaxConcurrency
  /\ continueOnError \in BOOLEAN
  /\ outputDir \in OutputDirs
  /\ uniqueFiles = <<>>
  /\ chunks = <<>>
  /\ chunkIndex = 0
  /\ results = <<>>
  /\ successful = 0
  /\ failed = 0
  /\ batchPc = "start"
  /\ batchResult = NoResult
  /\ WatchIdle
  /\ ConfigIdle

NextBatch ==
  \/ batchConvertBegin
  \/ batchLaunchChunk
  \/ batchChunkSettled
  \/ batchChunkRejected
  \/ batchReturn
  \/ ConvertMissingInput
  \/ ConvertPrepare
  \/ RenderDiagramBegin
  \/ RenderDiagramTempDir
  \/ RenderDiagramEnd
  \/ ConvertGenerated
  \/ ConvertGenerateFailed
  \/ CleanupBegin
  \/ CleanupExists
  \/ CleanupRemove

SpecBatch == InitBatch /\ [][NextBatch]_vars

\* batchConvert with any integer the command line can parse as concurrency.
\* Every step that can be taken is taken eventually: a promise that can
\* settle does, so every convert call terminates.
Concurrencies == (-1)..MaxConcurrency

InitAnyConcurrency ==
  /\ SpliceIdle
  /\ keepIntermediate = FALSE
  /\ ConverterInit
  /\ patterns \in SeqsUpTo(Patterns, MaxPatterns)
  /\ files = <<>>
  /\ concurrency \in Concurrencies
  /\ continueOnError \in BOOLEAN
  /\ outputDir = ""
  /\ uniqueFiles = <<>>
  /\ chunks = <<>>
  /\ chunkIndex = 0
  /\ results = <<>>
  /\ successful = 0
  /\ failed = 0
  /\ batchPc = "start"
  /\ batchResult = NoResult
  /\ WatchIdle
  /\ ConfigIdle

NextAnyConcurrency ==
  \/ batchConvertBegin
  \/ batchConvertSpins
  \/ chunkArrayRound
  \/ batchLaunchChunk
  \/ batchChunkSettled
  \/ batchChunkRejected
  \/ batchReturn
  \/ ConvertMissingInput
  \/ ConvertPrepare
  \/ RenderDiagramBegin
  \/ RenderDiagramTempDir
  \/ RenderDiagramEnd
  \/ ConvertGenerated
  \/ ConvertGenerateFailed
  \/ CleanupBegin
  \/ CleanupExists
  \/ CleanupRemove

SpecAnyConcurrency ==
  InitAnyConcurrency /\ [][NextAnyConcurrency]_vars /\ WF_vars(NextAnyConcurrency)

\* One watch session on a new Converter.
InitWatch ==
  /\ SpliceIdle
  /\ keepIntermediate \in BOOLEAN
  /\ ConverterInit
  /\ BatchIdle
  /\ now = 0
  /\ debounce \in 1..MaxDebounce
  /\ timers = [f \in WatchFiles |-> NoTimer]
  /\ scheduled = {}
  /\ watchPc = "open"
  /\ lastEvent = [f \in WatchFiles |-> -1]
  /\ bursts = [f \in WatchFiles |-> 0]
  /\ eventCount = 0
  /\ ConfigIdle

NextWatch ==
  \/ HandleChange
  \/ TimerFire
  \/ tick
  \/ closeBegin
  \/ closeEnd
  \/ ConvertMissingInput
  \/ ConvertPrepare
  \/ RenderDiagramBegin
  \/ RenderDiagramTempDir
  \/ RenderDiagramEnd
  \/ ConvertGenerated
  \/ ConvertGenerateFailed
  \/ CleanupBegin
  \/ CleanupExists
  \/ CleanupRemove

SpecWatch == InitWatch /\ [][NextWatch]_vars

\* The objects with some of the properties K, each holding a value of V.
Objects(K, V) == UNION {[D -> V] : D \in SUBSET K}

\* The properties of the sections the model follows.
SectionKeys(s) ==
  CASE s = "pdf"     -> {"format", "landscape"}
    [] s = "mermaid" -> {"theme"}
    [] s = "style"   -> {"cssFile"}

\* The configurations with some of the sections, their properties in V.
SectionConfigs(V) ==
  {c \in UNION {[D -> UNION {Objects(SectionKeys(s), V) : s \in Sections}] :
                  D \in SUBSET Sections} :
     \A s \in DOMAIN c : c[s] \in Objects(SectionKeys(s), V)}

\* A configuration file, parsed: no file, or sections whose properties hold
\* values the file gives.
FileConfigs == {NoConfig} \cup SectionConfigs({"file"})

\* The other options of the caller: none; those the convert command builds
\* when no flag is given; all of them.
OtherOptions ==
  { EmptyObject,
    [input |-> "in.md", output |-> "undefined", verbose |-> "undefined",
     keepIntermediate |-> "undefined"],
    [input |-> "in.md", output |-> "out.pdf", verbose |-> "true",
     keepIntermediate |-> "false", workingDir |-> "/w"] }

\* The options of the caller: a property of a section holds the caller's
\* value, or undefined as the flag of the command line that was not given.
CliOptions ==
  {Spread(c, other) : c \in SectionConfigs({"undefined", "cli"}), other \in OtherOptions}

\* One mergeConfig call.
InitMerge ==
  /\ SpliceIdle
  /\ keepIntermediate = FALSE
  /\ ConverterInit
  /\ BatchIdle
  /\ WatchIdle
  /\ fileConfig \in FileConfigs
  /\ cliOptions \in CliOptions
  /\ merged = EmptyObject
  /\ mergePc = "start"
  /\ config = EmptyObject
  /\ validation = [valid |-> TRUE, errors |-> <<>>]
  /\ validatePc = "idle"

NextMerge == mergeConfigCall

SpecMerge == InitMerge /\ [][NextMerge]_vars

FormatInputs == {"", "A4", "Ledger", "B5", "letter"}
ThemeInputs == {"", "default", "base", "neon"}
ScaleInputs == {0, 9, 10, 100, 200, 201}

\* A configuration to validate: pdf with some of format and scale, mermaid
\* with or without theme, each section present or not.
ConfigInputs ==
  LET pdfs == {[k \in D |-> IF k = "format" THEN f ELSE sc] :
                 D \in SUBSET {"format", "scale"}, f \in FormatInputs, sc \in ScaleInputs}
      mermaids == {[k \in D |-> t] : D \in SUBSET {"theme"}, t \in ThemeInputs}
  IN  {[s \in D |-> IF s = "pdf" THEN p ELSE m] :
         D \in SUBSET {"pdf", "mermaid"}, p \in pdfs, m \in mermaids}

\* One validateConfig call.
InitValidate ==
  /\ SpliceIdle
  /\ keepIntermediate = FALSE
  /\ ConverterInit
  /\ BatchIdle
  /\ WatchIdle
  /\ fileConfig = NoConfig
  /\ cliOptions = EmptyObject
  /\ merged = EmptyObject
  /\ mergePc = "idle"
  /\ config \in ConfigInputs
  /\ validation = [valid |-> TRUE, errors |-> <<>>]
  /\ validatePc = "start"

NextValidate == validateConfigCall

SpecValidate == InitValidate /\ [][NextValidate]_vars

(***************************************************************************)
(* Properties of processMarkdown                                           *)
(***************************************************************************)
NonOverlapping(ds) ==
  \A a, b \in 1..Len(ds) : a < b => ds[a].endIndex <= ds[b].startIndex

\* The outcome of the k-th render; a diagram not yet processed counts as
\* not replaced.
Replaced(k) == k <= Len(renderResults) /\ renderResults[k]
Failed(k) == k <= Len(renderResults) /\ ~renderResults[k]

\* The original text with the span of every replaced match k..Len(diagrams)
\* exchanged for its own image reference, read off the original spans:
\* content[pos, start_k) + reference_k + content[end_k, ...).
RECURSIVE ExpectedFrom(_, _)
ExpectedFrom(k, pos) ==
  IF k > Len(diagrams) THEN SubSeq(content, pos + 1, Len(content))
  ELSE SubSeq(content, pos + 1, diagrams[k].startIndex)
       \o (IF Replaced(k) THEN ImageMarkdown(baseFileName, k, outputFormat)
           ELSE SubSeq(content, diagrams[k].startIndex + 1, diagrams[k].endIndex))
       \o ExpectedFrom(k + 1, diagrams[k].endIndex)

\* C1: for a document whose matches do not overlap, after any number of
\* iterations and for any mix of render outcomes and replacement lengths, the
\* text equals the original text with the span of each successfully rendered
\* match replaced by that match's own image reference and every other
\* character preserved in order.
C1_SpliceOffsetInvariant ==
  (pmPc \in {"loop", "done"} /\ NonOverlapping(diagrams))
    => processedContent = ExpectedFrom(1, 0)

\* C1 witness: two disjoint matches were both replaced, the first by a
\* reference shorter than its block, and the call has returned.
C1_Witness ==
  /\ pmPc = "done"
  /\ Len(diagrams) >= 2
  /\ NonOverlapping(diagrams)
  /\ Replaced(1) /\ Replaced(2)
  /\ Len(ImageMarkdown(baseFileName, 1, outputFormat)) < Len(diagrams[1].fullMatch)
  /\ diagrams[1].endIndex < diagrams[2].startIndex

\* Net length change of the replacements applied to matches 1..k-1.
RECURSIVE ShiftBefore(_)
ShiftBefore(k) ==
  IF k <= 1 THEN 0
  ELSE ShiftBefore(k - 1)
       + (IF Replaced(k - 1)
          THEN Len(ImageMarkdown(baseFileName, k - 1, outputFormat))
               - Len(diagrams[k - 1].fullMatch)
          ELSE 0)

IsPrefix(pre, s) == Len(pre) <= Len(s) /\ SubSeq(s, 1, Len(pre)) = pre

Occurs(sub, s) ==
  \E p \in 0..(Len(s) - Len(sub)) : SubSeq(s, p + 1, p + Len(sub)) = sub

ErrorEntriesFor(k) ==
  {e \in 1..Len(errors) : IsPrefix(<<"Diagram ">> \o Dec(k) \o <<": ">>, errors[e])}

FailureCount == Cardinality({k \in 1..Len(renderResults) : ~renderResults[k]})

\* C2 as stated, for every document: a failed diagram's markup occurs
\* verbatim in the final text, it has exactly one error entry, and every
\* diagram that rendered is replaced by its image reference.
C2_FailureIsolationAnyDocument ==
  pmPc = "done" =>
    \A k \in 1..Len(diagrams) :
      /\ Failed(k) => /\ Occurs(diagrams[k].fullMatch, processedContent)
                      /\ Cardinality(ErrorEntriesFor(k)) = 1
      /\ Replaced(k) => Occurs(ImageMarkdown(baseFileName, k, outputFormat), processedContent)

\* C2 amended: a failed render adds exactly one error entry and leaves the
\* running offset unchanged in every document; in a document whose matches
\* do not overlap, the failed diagram's markup stays verbatim at its place
\* and every diagram that rendered is replaced by its image reference.
C2_FailureIsolation ==
  pmPc \in {"loop", "done"} =>
    /\ offset = ShiftBefore(Len(renderResults) + 1)
    /\ Len(errors) = FailureCount
    /\ \A k \in 1..Len(renderResults) :
         /\ Failed(k) => Cardinality(ErrorEntriesFor(k)) = 1
         /\ Replaced(k) => ErrorEntriesFor(k) = {}
    /\ NonOverlapping(diagrams) =>
         \A k \in 1..Len(renderResults) :
           LET from == diagrams[k].startIndex + ShiftBefore(k)
           IN  /\ Failed(k) =>
                    SubSeq(processedContent, from + 1, from + Len(diagrams[k].fullMatch))
                      = diagrams[k].fullMatch
               /\ Replaced(k) =>
                    LET ref == ImageMarkdown(baseFileName, k, outputFormat)
                    IN  SubSeq(processedContent, from + 1, from + Len(ref)) = ref

\* C2 witness: of two disjoint matches the first rendered and the second
\* failed, or the other way round, and the call has returned.
C2_Witness ==
  /\ pmPc = "done"
  /\ Len(diagrams) >= 2
  /\ NonOverlapping(diagrams)
  /\ Failed(1) /\ Replaced(2)

(***************************************************************************)
(* Properties of watch                                                     *)
(***************************************************************************)
TasksOf(file) == {t \in TaskIds : tasks[t].file = file}

\* C3: from the moment close() is called, no convert call is started.
C3_NoConvertAfterCloseCalled ==
  \A t \in TaskIds : tasks[t].watchState = "open"

\* C4: every conversion starts debounce after the last event of its file,
\* and while the session is not closed every burst of events of a file (each
\* event less than debounce after the previous one) has started exactly one
\* conversion or still has its one timer pending.
C4_OneConversionPerBurst ==
  /\ \A t \in TaskIds : tasks[t].startedAt = tasks[t].lastEv + debounce
  /\ watchPc \in {"open", "closing"} =>
       \A f \in WatchFiles :
         Cardinality(TasksOf(f)) + (IF timers[f] # NoTimer THEN 1 ELSE 0) = bursts[f]

\* C4 witness: two events for a.md at different times, the second less than
\* debounce after the first, made one burst, and its single conversion has
\* started, debounce after the second event.
C4_Witness ==
  /\ watchPc = "open"
  /\ eventCount = 2
  /\ bursts["a.md"] = 1 /\ bursts["b.md"] = 0
  /\ Len(tasks) = 1
  /\ tasks[1].lastEv = 1
  /\ debounce = 2
  /\ scheduled = {}

(***************************************************************************)
(* Properties of batchConvert and convert                                  *)
(***************************************************************************)
Range(seq) == {seq[j] : j \in 1..Len(seq)}

Completed(t) == tasks[t].pc = "done" /\ tasks[t].result \in {"success", "failure"}

InFlight == {t \in TaskIds : tasks[t].pc # "done"}

\* C5: the returned results hold one entry for every convert call that
\* completed, and the tally counts each of them.
C5_AllCompletedReported ==
  batchPc = "done" =>
    /\ \A t \in TaskIds : Completed(t) =>
         \E j \in 1..Len(batchResult.results) :
           batchResult.results[j].inputFile = tasks[t].file
    /\ batchResult.successful + batchResult.failed
         = Cardinality({t \in TaskIds : Completed(t)})

\* C6: without continueOnError no convert call of a group after one with a
\* failed document is ever started, and batchConvert returns only after every
\* call it started has completed; with continueOnError every group has been
\* started when batchConvert ends.
C6_StopOrContinue ==
  /\ ~continueOnError =>
       \A t, u \in TaskIds :
         (tasks[t].pc = "done" /\ tasks[t].result # "success")
           => tasks[u].group <= tasks[t].group
  /\ batchPc = "done" => InFlight = {}
  /\ (continueOnError /\ batchPc \in {"done", "rejected"}) =>
       \A g \in 1..Len(chunks) : \E t \in TaskIds : tasks[t].group = g

\* C7: the chunks are the deduplicated list cut into consecutive groups of
\* exactly concurrency files, the last one possibly smaller; at most
\* concurrency convert calls are in flight; and a call of a later group
\* exists only when every call of the earlier groups has completed.
C7_GroupsBoundParallelism ==
  batchPc \notin {"idle", "start"} =>
    /\ Flatten(chunks) = uniqueFiles
    /\ \A g \in 1..Len(chunks) :
         IF g < Len(chunks) THEN Len(chunks[g]) = concurrency
         ELSE Len(chunks[g]) >= 1 /\ Len(chunks[g]) <= concurrency
    /\ Cardinality(InFlight) <= concurrency
    /\ \A t, u \in TaskIds : tasks[t].group < tasks[u].group => tasks[t].pc = "done"

\* C7 witness: three files in groups of two and one; the second group runs.
C7_Witness ==
  /\ concurrency = 2
  /\ Len(chunks) = 2
  /\ Len(chunks[1]) = 2 /\ Len(chunks[2]) = 1
  /\ Len(tasks) = 3
  /\ tasks[3].pc # "done"

\* C8: no path is converted twice, every converted path is matched by a
\* pattern, and total is the number of distinct matched paths.
C8_EachFileOnce ==
  /\ \A t, u \in TaskIds : t # u => tasks[t].file # tasks[u].file
  /\ \A t \in TaskIds : tasks[t].file \in Range(GlobAll(patterns))
  /\ batchPc = "done" => batchResult.total = Cardinality(Range(GlobAll(patterns)))

\* C8 witness: two patterns that both match b.md; the batch has returned
\* after converting every matched file.
C8_Witness ==
  /\ batchPc = "done"
  /\ patterns = <<"b.md", "**/*.md">>
  /\ Len(tasks) = 3

\* C9: no two convert calls render into the same workspace at the same time,
\* and the workspace a call renders into is never removed under it.
C9_WorkspaceExclusive ==
  /\ \A t, u \in TaskIds :
       (t # u /\ tasks[t].pc = "render" /\ tasks[u].pc = "render")
         => tasks[t].workspace # tasks[u].workspace
  /\ \A t \in TaskIds : tasks[t].pc = "render" => tasks[t].workspace \in dirs

\* C10: when convert has returned and keepIntermediate is not set, the work
\* directory and every rendering workspace created for the document are gone.
C10_TempDirsRemoved ==
  ~keepIntermediate =>
    \A t \in TaskIds : Completed(t) =>
      /\ tasks[t].workDir \notin dirs
      /\ tasks[t].created \cap dirs = {}

(***************************************************************************)
(* Properties of extractDiagrams, renderDiagram and the numbering          *)
(***************************************************************************)
\* A diagram block of syntax d, said without the scan: the opening marker
\* and the word mermaid at p, white space up to a newline, and the closing
\* marker ending at e, with no closing marker between that white space and
\* it.  The span of the block is [p - 1, e).
IsBlock(text, p, e, d) ==
  /\ p >= 1 /\ e <= Len(text) /\ p + 4 <= e - 3
  /\ text[p] = d /\ text[p + 1] = d /\ text[p + 2] = d /\ text[p + 3] = "M"
  /\ text[e - 2] = d /\ text[e - 1] = d /\ text[e] = d
  /\ \E h \in (p + 4)..(e - 3) :
       /\ \A j \in (p + 4)..h : text[j] \in {"s", "n"}
       /\ text[h] = "n"
       /\ \A q \in (h + 1)..(e - 3) :
            ~(text[q] = d /\ text[q + 1] = d /\ text[q + 2] = d)

Openers(text) ==
  {o \in (1..Len(text)) \X {"~", ":"} :
     /\ o[1] + 3 <= Len(text)
     /\ text[o[1]] = o[2] /\ text[o[1] + 1] = o[2] /\ text[o[1] + 2] = o[2]
     /\ text[o[1] + 3] = "M"}

Blocks(text) ==
  UNION {{<<o[1], e, o[2]>> : e \in {x \in (o[1] + 7)..Len(text) : IsBlock(text, o[1], x, o[2])}} :
           o \in Openers(text)}

BlocksDisjoint(text) ==
  LET blocks == Blocks(text)
  IN  \A a, b \in blocks : a # b => (a[2] < b[1] \/ b[2] < a[1])

ReplacedCount == Cardinality({k \in 1..Len(renderResults) : renderResults[k]})

\* C11: for a document whose N diagram blocks, of either syntax, do not
\* overlap, diagramCount (diagrams.length) is N whatever the renders did, and
\* when processMarkdown returns, the blocks left in the final text are as
\* many as the blocks that did not render: the markup of every block that
\* rendered is gone.
C11_CountAndMarkupGone ==
  (pmPc \in {"loop", "done"} /\ BlocksDisjoint(content)) =>
    /\ Len(diagrams) = Cardinality(Blocks(content))
    /\ pmPc = "done" =>
         LET left == Blocks(processedContent)
         IN  /\ Cardinality(left) = Len(diagrams) - ReplacedCount
             /\ \A k \in 1..Len(diagrams) :
                  Replaced(k) =>
                    LET from == diagrams[k].startIndex + ShiftBefore(k)
                    IN  \A b \in left :
                          b[2] <= from
                            \/ b[1] > from + Len(ImageMarkdown(baseFileName, k, outputFormat))

\* C11 witness: a code-fence block and a triple-colon block that do not
\* overlap; the first rendered, the second failed, the call has returned.
C11_Witness ==
  /\ pmPc = "done"
  /\ BlocksDisjoint(content)
  /\ Cardinality(Blocks(content)) = 2
  /\ Len(diagrams) = 2
  /\ diagrams[1].fullMatch[1] # diagrams[2].fullMatch[1]
  /\ Replaced(1) /\ Failed(2)

\* C12: for a document with no diagram block, extractDiagrams returns the
\* empty sequence and processMarkdown returns the text unchanged with no
\* diagram and no error, having made no renderDiagram call and created no
\* rendering workspace.
C12_NoBlockNoEffect ==
  (pmPc \in {"loop", "done", "rejected"} /\ Blocks(content) = {}) =>
    /\ pmPc # "rejected"
    /\ diagrams = <<>>
    /\ extractDiagrams(content) = <<>>
    /\ processedContent = content
    /\ errors = <<>>
    /\ renderCalls = <<>>
    /\ tempDir = NoDir
    /\ dirs = {}

\* C12 witness: a document with an opening marker and a closing marker of
\* different syntaxes, hence with no block, has been processed.
C12_Witness ==
  /\ pmPc = "done"
  /\ Blocks(content) = {}
  /\ Occurs(<<"~", "~", "~", "M", "n">>, content)
  /\ Occurs(<<":", ":", ":">>, content)

\* C13: no renderDiagram call throws; a call returns {success: true} exactly
\* when it had or got a workspace, its writes went through, mmdc exited with
\* zero and the output file exists, and {success: false} with an error
\* message otherwise.
C13_RenderNeverThrows ==
  /\ pmPc # "rejected"
  /\ \A k \in 1..Len(renderCalls) :
       LET call == renderCalls[k]
       IN  /\ call.result.kind = "return"
           /\ call.result.success <=>
                /\ call.hadDir \/ call.env.tmpDir
                /\ call.env.write
                /\ call.env.exec = "exit0"
                /\ call.env.output
           /\ ~call.result.success => call.result.error # ""

\* C13 witness: two calls were made and returned: in the first mmdc exited
\* with zero and left no output file, the second rendered.
C13_Witness ==
  /\ pmPc = "done"
  /\ Len(renderCalls) = 2
  /\ renderCalls[1].env.tmpDir /\ renderCalls[1].env.write
  /\ renderCalls[1].env.exec = "exit0" /\ ~renderCalls[1].env.output
  /\ renderCalls[1].result = [kind |-> "return", success |-> FALSE,
                              error |-> "Output file was not created"]
  /\ renderCalls[2].result.success

\* The delimiter syntax of a match.
Syntax(diagram) == diagram.fullMatch[1]

\* C16: when extractDiagrams has returned, it has returned every match of either syntax and nothing
\* else, sorted by startIndex ascending, each with endIndex = startIndex +
\* length(fullMatch) and fullMatch the text of its span.
C16_MergedSorted ==
  (pmPc = "loop" /\ i = 0) =>
    /\ \A a, b \in 1..Len(diagrams) : a < b => diagrams[a].startIndex <= diagrams[b].startIndex
    /\ \A k \in 1..Len(diagrams) :
         /\ diagrams[k].endIndex = diagrams[k].startIndex + Len(diagrams[k].fullMatch)
         /\ diagrams[k].fullMatch
              = SubSeq(content, diagrams[k].startIndex + 1, diagrams[k].endIndex)
         /\ IsBlock(content, diagrams[k].startIndex + 1, diagrams[k].endIndex,
                    Syntax(diagrams[k]))
    /\ \A j \in 1..Len(MERMAID_PATTERNS) :
         Range(ScanPattern(content, 0, MERMAID_PATTERNS[j])) \subseteq Range(diagrams)
    /\ Len(diagrams) = Len(ScanPattern(content, 0, MERMAID_PATTERNS[1]))
                         + Len(ScanPattern(content, 0, MERMAID_PATTERNS[2]))

\* C16 witness: a triple-colon match comes before a code-fence match.
C16_Witness ==
  /\ pmPc = "loop"
  /\ Len(diagrams) = 2
  /\ Syntax(diagrams[1]) = ":" /\ Syntax(diagrams[2]) = "~"
  /\ diagrams[1].endIndex <= diagrams[2].startIndex

\* C17 as stated, for any text: the spans of the matches are pairwise
\* disjoint.
C17_SpansDisjoint ==
  (pmPc = "loop" /\ i = 0) => NonOverlapping(diagrams)

\* C17 amended: for any text, the spans of the matches of one syntax are
\* pairwise disjoint.
C17_SameSyntaxDisjoint ==
  (pmPc = "loop" /\ i = 0) =>
    \A a, b \in 1..Len(diagrams) :
      (a < b /\ Syntax(diagrams[a]) = Syntax(diagrams[b]))
        => diagrams[a].endIndex <= diagrams[b].startIndex

\* C17 witness: two code-fence matches, the second opening right where the
\* first one ends.
C17_Witness ==
  /\ pmPc = "loop"
  /\ Len(diagrams) = 2
  /\ Syntax(diagrams[1]) = "~" /\ Syntax(diagrams[2]) = "~"
  /\ diagrams[1].endIndex = diagrams[2].startIndex

\* The file name and the image reference that number k stands for.
NumberedName(k) == baseFileName \o <<"-diagram-">> \o Dec(k) \o <<".", outputFormat>>
NumberedReference(k) ==
  <<"![Diagram ">> \o Dec(k) \o <<"](./">> \o NumberedName(k) \o <<")">>

FailuresUpTo(k) == Cardinality({j \in 1..k : Failed(j)})

\* C18: the k-th match is rendered to <base>-diagram-k.<format> whatever
\* happened to the other diagrams; no two calls get the same file name; a
\* failure of match k is the entry labelled Diagram k at its place in errors;
\* and in a document whose matches do not overlap, the reference that
\* replaced match k carries Diagram k and that file name.
C18_NumberedByScanOrder ==
  pmPc \in {"loop", "done"} =>
    /\ Len(renderCalls) = i
    /\ \A k \in 1..Len(renderCalls) :
         /\ renderCalls[k].imageName = NumberedName(k)
         /\ renderCalls[k].code = diagrams[k].code
         /\ \A j \in 1..Len(renderCalls) :
              j # k => renderCalls[j].imageName # renderCalls[k].imageName
         /\ Failed(k) =>
              IsPrefix(<<"Diagram ">> \o Dec(k) \o <<": ">>, errors[FailuresUpTo(k)])
         /\ (Replaced(k) /\ NonOverlapping(diagrams)) =>
              LET from == diagrams[k].startIndex + ShiftBefore(k)
              IN  SubSeq(processedContent, from + 1, from + Len(NumberedReference(k)))
                    = NumberedReference(k)

\* C18 witness: of two matches the first failed and the second rendered, so
\* the only error is labelled Diagram 1 and the only image is number 2; and
\* the call has returned.
C18_Witness ==
  /\ pmPc = "done"
  /\ Len(diagrams) = 2
  /\ NonOverlapping(diagrams)
  /\ Failed(1) /\ Replaced(2)
  /\ Len(errors) = 1
  /\ renderCalls[2].imageName = NumberedName(2)
  /\ renderCalls[1].env.exec = "nonZero"

(***************************************************************************)
(* Properties of convert, close, mergeConfig and validateConfig            *)
(***************************************************************************)
\* C15: no convert call rejects: every call that has settled resolved to a
\* ConversionResult.
C15_ConvertNeverRejects ==
  \A t \in TaskIds : tasks[t].result # "rejected"

\* C19: once close() has returned, the timers map is empty, no timer is
\* set, and no conversion is started by a timer any more.
C19_ClosedMeansNoTimer ==
  /\ watchPc = "closed" =>
       /\ \A f \in WatchFiles : timers[f] = NoTimer
       /\ scheduled = {}
  /\ \A t \in TaskIds : tasks[t].watchState # "closed"

\* C19 witness: close() has returned after an event whose timer never fired:
\* the timer was pending and was cancelled.
C19_Witness ==
  /\ watchPc = "closed"
  /\ eventCount >= 1
  /\ Len(tasks) = 0
  /\ now = MaxTime

CliValue(s, k) == IF s \in DOMAIN cliOptions THEN Get(cliOptions[s], k) ELSE "undefined"
FileValue(s, k) ==
  IF fileConfig # NoConfig /\ s \in DOMAIN fileConfig THEN Get(fileConfig[s], k)
  ELSE "undefined"
MergedValue(s, k) == IF s \in DOMAIN merged THEN Get(merged[s], k) ELSE "undefined"

\* C14: for every key of pdf, mermaid and style, the merged value is the
\* caller's when the caller supplies the key, and the file's when the caller
\* leaves the key unspecified and the file supplies it.
C14_CallerWinsFileFallsBack ==
  mergePc = "done" =>
    \A s \in Sections : \A k \in SectionKeys(s) :
      /\ CliValue(s, k) # "undefined" => MergedValue(s, k) = CliValue(s, k)
      /\ (CliValue(s, k) = "undefined" /\ FileValue(s, k) # "undefined")
           => MergedValue(s, k) = FileValue(s, k)

AllowedFormats ==
  {"A0", "A1", "A2", "A3", "A4", "A5", "A6", "Letter", "Legal", "Tabloid", "Ledger"}
AllowedThemes == {"default", "forest", "dark", "neutral", "base"}

HasError(label) ==
  \E j \in 1..Len(validation.errors) : validation.errors[j][1] = label

\* C20: valid is true exactly when errors is empty; there is an error for a
\* pdf.format outside the allowed formats, one for a mermaid.theme outside
\* the allowed themes and one for a pdf.scale below 0.1 or above 2, each
\* exactly when its field is present with such a value.
C20_ValidateReportsEach ==
  validatePc = "done" =>
    /\ validation.valid <=> (validation.errors = <<>>)
    /\ HasError("Invalid PDF format: ")
         <=> ("pdf" \in DOMAIN config /\ "format" \in DOMAIN config["pdf"]
              /\ config["pdf"]["format"] \notin AllowedFormats)
    /\ HasError("Invalid Mermaid theme: ")
         <=> ("mermaid" \in DOMAIN config /\ "theme" \in DOMAIN config["mermaid"]
              /\ config["mermaid"]["theme"] \notin AllowedThemes)
    /\ HasError("PDF scale must be between 0.1 and 2")
         <=> ("pdf" \in DOMAIN config /\ "scale" \in DOMAIN config["pdf"]
              /\ (config["pdf"]["scale"] < 10 \/ config["pdf"]["scale"] > 200))

\* C22: a MermaidProcessor holds at most one workspace and keeps track of
\* every workspace it created: a workspace a render created and that still
\* exists is the one this.tempDir names.
C22_WorkspaceTracked ==
  \A t \in TaskIds : \A w \in tasks[t].created : w \in dirs => w = tempDir

\* C24: when the input exists and PDF generation succeeded, convert returns
\* success with diagramCount equal to the number of diagrams found, however
\* many renders failed.
C24_RenderFailuresNeverFail ==
  \A t \in TaskIds :
    (tasks[t].pc = "done" /\ tasks[t].pdf = "ok") =>
      tasks[t].result = "success" /\ tasks[t].nDiag = tasks[t].found

\* C26: in every state of batchConvert, successful + failed = results.length
\* <= total; at the return with continueOnError, results.length = total;
\* without continueOnError, failed is at most 1.
C26_TallyConsistent ==
  batchPc \in {"launch", "await", "return", "rejected", "done"} =>
    /\ successful + failed = Len(results)
    /\ Len(results) <= Len(uniqueFiles)
    /\ successful = Cardinality({j \in 1..Len(results) : results[j].success})
    /\ (batchPc = "done" /\ continueOnError) => Len(results) = Len(uniqueFiles)
    /\ ~continueOnError => failed <= 1
    /\ batchPc = "done" =>
         batchResult = [total |-> Len(uniqueFiles), successful |-> successful,
                        failed |-> failed, results |-> results]

\* C26 witness: a batch of three files in two chunks returned without
\* continueOnError after a failure in the first chunk: one result of the
\* chunk is tallied as failed and the last file was never converted.
C26_Witness ==
  /\ batchPc = "done"
  /\ ~continueOnError
  /\ concurrency = 2
  /\ Len(uniqueFiles) = 3
  /\ Len(tasks) = 2
  /\ tasks[1].result = "failure" /\ tasks[2].result = "failure"
  /\ batchResult.failed = 1 /\ batchResult.successful = 0
  /\ Len(batchResult.results) = 1

\* C30: within one batchConvert call, two distinct input files are never
\* given the same output path.
C30_OutputPathsDistinct ==
  \A t, u \in TaskIds :
    (tasks[t].group > 0 /\ tasks[u].group > 0 /\ tasks[t].file # tasks[u].file)
      => tasks[t].output # tasks[u].output

\* C27: batchConvert terminates for every list of matched files and every
\* integer concurrency, zero and negative values included, when every
\* convert call terminates: the call eventually returns or rejects.
C27_BatchTerminates == <>(batchPc \in {"done", "rejected"})

\* C21: two renderDiagram calls in flight together on the same workspace
\* write their diagram source under distinct names.
C21_InputNamesDistinct ==
  \A t, u \in TaskIds :
    (t # u /\ tasks[t].pc = "render" /\ tasks[u].pc = "render"
       /\ tasks[t].workspace = tasks[u].workspace)
      => tasks[t].stamp # tasks[u].stamp

TimersOf(set, f) == {timer \in set : timer.file = f}

\* C23: the map holds an entry for a file exactly when a timer of the file
\* is set and has neither fired nor been cancelled, there is at most one
\* such timer per file, and the entry of a firing timer is gone when its
\* conversion is started.
C23_MapMatchesTimers ==
  /\ [](\A f \in WatchFiles :
          /\ Cardinality(TimersOf(scheduled, f)) <= 1
          /\ timers[f] # NoTimer <=> TimersOf(scheduled, f) # {}
          /\ timers[f] # NoTimer => timers[f] \in TimersOf(scheduled, f))
  /\ [][Len(tasks') > Len(tasks) => timers'[tasks'[Len(tasks')].file] = NoTimer]_vars

\* C23 witness: the timer of b.md has fired and started the first
\* conversion while the timer of a.md is still pending.
C23_Witness ==
  /\ watchPc = "open"
  /\ Len(tasks) = 1
  /\ tasks[1].file = "b.md"
  /\ tasks[1].pc = "start"
  /\ timers["b.md"] = NoTimer
  /\ timers["a.md"] # NoTimer
  /\ timers["a.md"] \in scheduled

\* C28: in watch mode at most one conversion of a file is in flight.
C28_OneConversionPerFile ==
  \A t, u \in TaskIds :
    (t # u /\ tasks[t].file = tasks[u].file) => ~(t \in InFlight /\ u \in InFlight)

\* C29: the timer and the map entry of a file change only by an event for
\* that file, by the firing of its own timer, or by close(); an event for
\* another file leaves them as they are.
C29_OtherFileUntouched ==
  [][\A f \in WatchFiles :
       (timers'[f] # timers[f] \/ TimersOf(scheduled', f) # TimersOf(scheduled, f))
         => \/ TimersOf(scheduled', f) \ scheduled # {}
            \/ TimersOf(scheduled, f) \ scheduled' # {} /\ Len(tasks') = Len(tasks) + 1
                 /\ tasks'[Len(tasks')].file = f
            \/ watchPc = "closing" /\ watchPc' = "closed"]_vars

\* C29 witness: an event for b.md arrived while the timer of a.md was
\* pending, and the timer of a.md is still set with its earlier deadline.
C29_Witness ==
  /\ timers["a.md"] # NoTimer /\ timers["b.md"] # NoTimer
  /\ timers["a.md"].id = 1 /\ timers["b.md"].id = 2
  /\ timers["a.md"].at < timers["b.md"].at
  /\ timers["a.md"] \in scheduled

\* C25: within one processMarkdown call the diagrams are rendered one at a
\* time in strictly ascending order of their original offset: the k-th
\* render is that of the k-th match, it is started when the renders before
\* it have completed and their splices are applied, and no render is
\* pending between two iterations.
C25_RendersInScanOrder ==
  pmPc \in {"loop", "rejected", "done"} =>
    /\ Len(renderCalls) = i
    /\ Len(renderResults) = i
    /\ \A k \in 1..Len(renderCalls) :
         /\ renderCalls[k].startIndex = diagrams[k].startIndex
         /\ renderCalls[k].offsetAtCall = ShiftBefore(k)
         /\ \A j \in 1..(k - 1) : renderCalls[j].startIndex < renderCalls[k].startIndex

\* C25 witness: two blocks were rendered; the first render succeeded and
\* its splice had moved the offset when the second render was started.
C25_Witness ==
  /\ pmPc = "done"
  /\ Len(renderCalls) = 2
  /\ renderResults[1]
  /\ renderCalls[2].offsetAtCall # 0
  /\ renderCalls[1].startIndex < renderCalls[2].startIndex

====
